---- MODULE Spec2Model ----
(***************************************************************************)
(* A model of the DRAM warehouse persistence layer (Database/database.py)  *)
(* over the schema of Database/models.py: the tables of the relational     *)
(* store, their identity sequences, the dimension reconcilers and the      *)
(* generic CRUD operations of DatabaseManager.                             *)
(*                                                                         *)
(* Dates are day numbers counted from 2020-01-01 (day 0).  Text cells are  *)
(* sequences of one-character strings so that strip, lower and replace are *)
(* computed as the code computes them.                                     *)
(***************************************************************************)
EXTENDS Integers, Sequences, FiniteSets, TLC

VARIABLES today, tables, seq, pre, last, prev, steps, open_sessions, runs

vars == <<today, tables, seq, pre, last, prev, steps, open_sessions, runs>>

(***************************************************************************)
(* Bounds of the model.                                                    *)
(***************************************************************************)
\* steps (calls and clock ticks) in one behaviour
MaxSteps == 2
\* the clock runs over the days 0 .. MaxToday
MaxToday == 1
\* years_ahead is drawn from 1 .. MaxYearsAhead
MaxYearsAhead == 2
\* rows in one external region feed
MaxFeedLen == 2

(***************************************************************************)
(* The calendar: date.year, date.month, isocalendar, isoweekday, strftime. *)
(***************************************************************************)
\* date(2020, 1, 1), the default start_date, is day 0 of the model
EpochYear == 2020

DefaultStart == 0

DaysPerYearAhead == 365

IsLeap(y) == (y % 4 = 0 /\ y % 100 # 0) \/ y % 400 = 0

DaysInYear(y) == IF IsLeap(y) THEN 366 ELSE 365

DaysInMonth(y, m) ==
    IF m = 2 THEN (IF IsLeap(y) THEN 29 ELSE 28)
    ELSE IF m \in {4, 6, 9, 11} THEN 30 ELSE 31

RECURSIVE YearFrom(_, _)
\* the year of day d counted from 1 January of year y, and the day's ordinal in it
YearFrom(y, d) ==
    IF d < DaysInYear(y) THEN [year |-> y, ord |-> d + 1]
    ELSE YearFrom(y + 1, d - DaysInYear(y))

RECURSIVE MonthFrom(_, _, _)
MonthFrom(y, m, ord) ==
    IF ord <= DaysInMonth(y, m) THEN m
    ELSE MonthFrom(y, m + 1, ord - DaysInMonth(y, m))

\* d.isoweekday(): 1 = Monday .. 7 = Sunday; 2020-01-01 was a Wednesday
IsoWeekday(d) == ((d + 2) % 7) + 1

\* weeks of ISO year y, from the weekday of its 1 January (day number jan1)
IsoWeeksInYear(y, jan1) ==
    IF IsoWeekday(jan1) = 4 \/ (IsLeap(y) /\ IsoWeekday(jan1) = 3) THEN 53 ELSE 52

\* d.isocalendar()[1]
IsoWeek(d) ==
    LET yo   == YearFrom(EpochYear, d)
        jan1 == d - (yo.ord - 1)
        w    == (yo.ord - IsoWeekday(d) + 10) \div 7
    IN  IF w < 1
          THEN IsoWeeksInYear(yo.year - 1, jan1 - DaysInYear(yo.year - 1))
          ELSE IF w > IsoWeeksInYear(yo.year, jan1) THEN 1 ELSE w

\* d.strftime("%A")
DayName(n) ==
    <<<<"M", "o", "n", "d", "a", "y">>,
      <<"T", "u", "e", "s", "d", "a", "y">>,
      <<"W", "e", "d", "n", "e", "s", "d", "a", "y">>,
      <<"T", "h", "u", "r", "s", "d", "a", "y">>,
      <<"F", "r", "i", "d", "a", "y">>,
      <<"S", "a", "t", "u", "r", "d", "a", "y">>,
      <<"S", "u", "n", "d", "a", "y">>>>[n]

\* the DateDim row ensure_date_dim stages for day d
DateRow(d) ==
    LET yo == YearFrom(EpochYear, d)
        m  == MonthFrom(yo.year, 1, yo.ord)
    IN  [date |-> d,
         year |-> yo.year,
         quarter |-> ((m - 1) \div 3) + 1,
         month |-> m,
         week |-> IsoWeek(d),
         day_of_week_num |-> IsoWeekday(d),
         day_of_week_name |-> DayName(IsoWeekday(d))]

\* the last day any reconciliation of the model can reach
MaxDate == MaxToday + DaysPerYearAhead * MaxYearsAhead

\* the staged rows, computed once per day
Calendar == [d \in 0..MaxDate |-> DateRow(d)]

\* StagedRows with the loop test `d < end_date`: the end date is never staged
StagedRowsShort(start, end) == {Calendar[d] : d \in start..(end - 1)}

\* the rows staged by the loop `while d <= end_date`
StagedRows(start, end) == {Calendar[d] : d \in start..end}


(***************************************************************************)
(* Cell values.  A text is a sequence of characters; None is SQL NULL in a *)
(* text column, NoneInt is SQL NULL in an integer column, NaN is the float *)
(* pandas puts in an empty cell of the feed.                               *)
(***************************************************************************)
None == <<"None">>

NoneInt == -1

NaN == <<"NaN">>

RECURSIVE LStrip(_)
LStrip(s) ==
    IF s = <<>> THEN s ELSE IF Head(s) = " " THEN LStrip(Tail(s)) ELSE s

RECURSIVE RStrip(_)
RStrip(s) ==
    IF s = <<>> THEN s
    ELSE IF s[Len(s)] = " " THEN RStrip(SubSeq(s, 1, Len(s) - 1)) ELSE s

\* str.strip()
Strip(s) == RStrip(LStrip(s))

UpperLetters ==
    <<"A", "B", "C", "D", "E", "F", "G", "H", "I", "J", "K", "L", "M",
      "N", "O", "P", "Q", "R", "S", "T", "U", "V", "W", "X", "Y", "Z">>

LowerLetters ==
    <<"a", "b", "c", "d", "e", "f", "g", "h", "i", "j", "k", "l", "m",
      "n", "o", "p", "q", "r", "s", "t", "u", "v", "w", "x", "y", "z">>

LowerChar(c) ==
    IF \E i \in 1..Len(UpperLetters) : UpperLetters[i] = c
      THEN LowerLetters[CHOOSE i \in 1..Len(UpperLetters) : UpperLetters[i] = c]
      ELSE c

\* str.lower()
Lower(s) == [i \in 1..Len(s) |-> LowerChar(s[i])]

\* str.replace(a, b) for one-character a and b
Replace(s, a, b) == [i \in 1..Len(s) |-> IF s[i] = a THEN b ELSE s[i]]

RECURSIVE Split(_, _)
\* str.split(sep): the pieces between the separators, at least one piece
Split(s, sep) ==
    IF \A i \in 1..Len(s) : s[i] # sep THEN <<s>>
    ELSE LET k == CHOOSE i \in 1..Len(s) :
                      s[i] = sep /\ \A j \in 1..(i - 1) : s[j] # sep
         IN  <<SubSeq(s, 1, k - 1)>> \o Split(SubSeq(s, k + 1, Len(s)), sep)

RECURSIVE Join(_, _)
\* sep.join(parts)
Join(sep, parts) ==
    IF parts = <<>> THEN <<>>
    ELSE IF Len(parts) = 1 THEN parts[1]
    ELSE parts[1] \o <<sep>> \o Join(sep, Tail(parts))

\* pd.isna(val)
IsNa(val) == val = NaN

\* str(val): the float NaN prints as "nan"
Str(val) == IF val = NaN THEN <<"n", "a", "n">> ELSE val

\* clean(val) of ensure_region_dim
Clean(val) ==
    IF IsNa(val) \/ Lower(Strip(Str(val))) = <<"n", "a", "n">>
      THEN None
      ELSE Strip(Str(val))

\* the languages expression of ensure_region_dim; "" is falsy
CleanLanguages(val) ==
    IF Clean(val) # None /\ Clean(val) # <<>>
      THEN Join(",", Split(Replace(Clean(val), ";", ","), ","))
      ELSE None

Africa == <<"A", "f", "r", "i", "c", "a">>

Antarctica == <<"A", "n", "t", "a", "r", "c", "t", "i", "c", "a">>

Asia == <<"A", "s", "i", "a">>

Europe == <<"E", "u", "r", "o", "p", "e">>

NorthAmerica == <<"N", "o", "r", "t", "h", " ", "A", "m", "e", "r", "i", "c", "a">>

Oceania == <<"O", "c", "e", "a", "n", "i", "a">>

SouthAmerica == <<"S", "o", "u", "t", "h", " ", "A", "m", "e", "r", "i", "c", "a">>

Unknown == <<"U", "n", "k", "n", "o", "w", "n">>

\* continent_map as its (code, name) items
continent_map ==
    { <<<<"A", "F">>, Africa>>, <<<<"A", "N">>, Antarctica>>, <<<<"A", "S">>, Asia>>,
      <<<<"E", "U">>, Europe>>, <<<<"N", "A">>, NorthAmerica>>,
      <<<<"O", "C">>, Oceania>>, <<<<"S", "A">>, SouthAmerica>> }

\* continent_name_to_code.get(name, None)
continent_name_to_code(name) ==
    IF \E kv \in continent_map : kv[2] = name
      THEN (CHOOSE kv \in continent_map : kv[2] = name)[1]
      ELSE None


(***************************************************************************)
(* The schema of Database/models.py.                                       *)
(***************************************************************************)
FactTables ==
    {"dram_prices", "dram_production", "smartphone_shipments", "pc_shipments",
     "datacenter_demand", "macro_indicators", "competitor_pricing"}

DimTables == {"date_dim", "region_dim"}

TableNames == DimTables \cup FactTables

\* Base.metadata.sorted_tables: referenced tables before the tables that reference them
sorted_tables ==
    <<"date_dim", "region_dim", "competitor_pricing", "datacenter_demand",
      "dram_prices", "dram_production", "macro_indicators", "pc_shipments",
      "smartphone_shipments">>

Columns(t) ==
    CASE t = "date_dim" ->
           {"date", "year", "quarter", "month", "week", "day_of_week_num",
            "day_of_week_name"}
      [] t = "region_dim" ->
           {"region_id", "country_code", "country_name", "native_name", "phone_code",
            "continent_code", "continent_name", "capital", "currency", "languages"}
      [] t = "dram_prices" -> {"id", "date", "dram_type", "price_usd", "source"}
      [] t = "dram_production" ->
           {"id", "date", "fab_location", "dram_type", "capacity_million_gb",
            "utilization_rate"}
      [] t = "smartphone_shipments" ->
           {"id", "date", "brand", "region_id", "shipments_million_units"}
      [] t = "pc_shipments" -> {"id", "date", "brand", "shipments_million_units"}
      [] t = "datacenter_demand" -> {"id", "date", "application", "demand_million_gb"}
      [] t = "macro_indicators" -> {"id", "date", "indicator", "value", "region_id"}
      [] t = "competitor_pricing" -> {"id", "date", "competitor", "dram_type", "price_usd"}

\* the primary key column
PrimaryKey(t) ==
    IF t = "date_dim" THEN "date" ELSE IF t = "region_dim" THEN "region_id" ELSE "id"

\* tables whose primary key is autoincrement, each owning one sequence
SerialTables == TableNames \ {"date_dim"}

\* Integer, Float and Date columns; every other column is text
IntColumns ==
    {"date", "year", "quarter", "month", "week", "day_of_week_num", "region_id", "id",
     "price_usd", "capacity_million_gb", "utilization_rate", "shipments_million_units",
     "demand_million_gb", "value"}

NullOf(c) == IF c \in IntColumns THEN NoneInt ELSE None

\* the columns declared nullable=False, and the primary keys
NotNull(t) ==
    CASE t = "date_dim" -> Columns(t)
      [] t = "region_dim" -> {"region_id", "country_code", "country_name"}
      [] t = "dram_prices" -> {"id", "date", "dram_type", "price_usd"}
      [] OTHER -> {"id", "date"}

\* UniqueConstraint columns besides the primary key
UniqueColumns(t) ==
    CASE t = "date_dim" -> {"date"}
      [] t = "region_dim" -> {"country_code"}
      [] OTHER -> {}

\* ForeignKey columns: <<column, referenced table, referenced column>>
ForeignKeys(t) ==
    IF t \in DimTables THEN {}
    ELSE {<<"date", "date_dim", "date">>}
           \cup (IF t \in {"smartphone_shipments", "macro_indicators"}
                   THEN {<<"region_id", "region_dim", "region_id">>} ELSE {})

Manual == <<"m", "a", "n", "u", "a", "l">>

\* Column(default=...)
ColumnDefault(t, c) ==
    IF t = "dram_prices" /\ c = "source" THEN Manual ELSE NullOf(c)

(***************************************************************************)
(* The relational store: constraint checks of one statement.  T maps each  *)
(* table to its set of rows.                                               *)
(***************************************************************************)
\* r collides with no row of rows on the primary key or a unique column
NoDuplicate(rows, t, r) ==
    \A c \in {PrimaryKey(t)} \cup UniqueColumns(t) : \A q \in rows : q[c] # r[c]

\* RowOk for a store that does not enforce foreign keys
RowOkNotNullOnly(T, t, r) == \A c \in NotNull(t) : r[c] # NullOf(c)

\* row r of table t satisfies NOT NULL, and its foreign keys resolve in T
RowOk(T, t, r) ==
    /\ \A c \in NotNull(t) : r[c] # NullOf(c)
    /\ \A fk \in ForeignKeys(t) :
          r[fk[1]] = NullOf(fk[1]) \/ \E p \in T[fk[2]] : p[fk[3]] = r[fk[1]]

\* InsertOk for a schema without the ForeignKey declarations
InsertOkNoFk(T, t, r) ==
    /\ \A c \in NotNull(t) : r[c] # NullOf(c)
    /\ NoDuplicate(T[t], t, r)

\* INSERT of r into t succeeds
InsertOk(T, t, r) == RowOk(T, t, r) /\ NoDuplicate(T[t], t, r)

\* some row of some table references row p of table t
Referenced(T, t, p) ==
    \E u \in TableNames : \E fk \in ForeignKeys(u) :
        fk[2] = t /\ \E r \in T[u] : r[fk[1]] = p[fk[3]]

\* the row of a new entity: given fields, a sequence value for a missing serial key,
\* the column default for every other missing column
NewRow(t, fields, nextval) ==
    [c \in Columns(t) |->
        IF c \in DOMAIN fields THEN fields[c]
        ELSE IF c = PrimaryKey(t) /\ t \in SerialTables THEN nextval
        ELSE ColumnDefault(t, c)]

\* the identity sequences after an INSERT: nextval is consumed whether or not the
\* row is kept, and only when the key was not given
Consumed(S, t, fields) ==
    IF t \in SerialTables /\ PrimaryKey(t) \notin DOMAIN fields
      THEN [S EXCEPT ![t] = @ + 1]
      ELSE S

EmptyTables == [t \in TableNames |-> {}]

FreshSeq == [t \in SerialTables |-> 1]


(***************************************************************************)
(* DatabaseManager.get_session and the `with` block of every operation.    *)
(* A block is left by one of four ways: "end" (control runs off its end),  *)
(* "return" (a return of the result inside the block), "early" (a return   *)
(* before any write: not found, nothing to add) or "raise".                *)
(***************************************************************************)
ExitWays == {"end", "return", "early", "raise"}

\* LeftOpen for a session closed by a session.close() as the last statement of the
\* block instead of by the context manager
LeftOpenCloseAtEnd(way) == IF way = "end" THEN 0 ELSE 1

\* the sessions get_session() opened that are still open once the block
\* `with self.get_session() as session:` was left by way: Session.__exit__ closes
\* the session however the block is left
LeftOpen(way) == IF way \in ExitWays THEN 0 ELSE 1

(***************************************************************************)
(* DatabaseManager.ensure_date_dim                                         *)
(***************************************************************************)
\* the greatest element of a non-empty set of integers: the greatest of those with
\* no successor in the set
SetMax(S) ==
    LET tops == {x \in S : x + 1 \notin S}
    IN  CHOOSE x \in tops : \A y \in tops : y <= x

\* BulkInsertOk for rows written with session.merge: a row whose key exists is
\* overwritten instead of rejected
BulkInsertOkMerge(T, t, rows) ==
    /\ \A r \in rows : RowOk(T, t, r)
    /\ \A c \in {PrimaryKey(t)} \cup UniqueColumns(t) :
          Cardinality({r[c] : r \in rows}) = Cardinality(rows)

\* session.bulk_save_objects(rows): one INSERT of all rows, all or nothing
BulkInsertOk(T, t, rows) ==
    /\ \A r \in rows : RowOk(T, t, r)
    /\ \A c \in {PrimaryKey(t)} \cup UniqueColumns(t) :
          /\ {r[c] : r \in rows} \cap {q[c] : q \in T[t]} = {}
          /\ Cardinality({r[c] : r \in rows}) = Cardinality(rows)

\* FillStart without the `+ timedelta(days=1)`: the fill starts on the last date
FillStartAtMax(dates, start_date) ==
    IF dates # {} THEN SetMax(dates) ELSE start_date

\* the first date of the fill range: the day after the last existing date,
\* or start_date when the table is empty
FillStart(dates, start_date) ==
    IF dates # {} THEN SetMax(dates) + 1 ELSE start_date

\* ensure_date_dim as a rebuild: the table is replaced by the whole range
ensure_date_dim_rebuild(T, start_date, years_ahead, now) ==
    LET end_date == now + DaysPerYearAhead * years_ahead
        rows     == StagedRows(start_date, end_date)
    IN  [tables |-> [T EXCEPT !["date_dim"] = rows], end_date |-> end_date,
         staged |-> Cardinality(rows), committed |-> TRUE, raised |-> FALSE,
         exit |-> "end"]

\* one call of ensure_date_dim on the tables T when date.today() is now
ensure_date_dim(T, start_date, years_ahead, now) ==
    LET end_date == now + DaysPerYearAhead * years_ahead
        dates    == {r.date : r \in T["date_dim"]}
        first    == FillStart(dates, start_date)
        rows     == StagedRows(first, end_date)
    IN  IF dates # {} /\ first > end_date
          THEN [tables |-> T, end_date |-> end_date, staged |-> 0,
                committed |-> FALSE, raised |-> FALSE, exit |-> "early"]
        ELSE IF rows = {}
          THEN [tables |-> T, end_date |-> end_date, staged |-> 0,
                committed |-> FALSE, raised |-> FALSE, exit |-> "end"]
        ELSE IF BulkInsertOk(T, "date_dim", rows)
          THEN [tables |-> [T EXCEPT !["date_dim"] = @ \cup rows],
                end_date |-> end_date, staged |-> Cardinality(rows),
                committed |-> TRUE, raised |-> FALSE, exit |-> "end"]
          ELSE [tables |-> T, end_date |-> end_date, staged |-> Cardinality(rows),
                committed |-> FALSE, raised |-> TRUE, exit |-> "raise"]

Snapshot == [tables |-> tables, seq |-> seq]

\* no call: before the first operation, and in prev after any operation that is
\* not a reconciliation
NoCall == [op |-> "none", raised |-> FALSE]

EnsureDateDim(start_date, years_ahead) ==
    /\ steps < MaxSteps
    /\ LET res == ensure_date_dim(tables, start_date, years_ahead, today)
       IN  /\ tables' = res.tables
           /\ last' = [op |-> "ensure_date_dim", start_date |-> start_date,
                       years_ahead |-> years_ahead, today |-> today,
                       end_date |-> res.end_date, staged |-> res.staged,
                       committed |-> res.committed, raised |-> res.raised,
                       exit |-> res.exit]
           /\ open_sessions' = open_sessions + LeftOpen(res.exit)
    /\ prev' = last
    /\ pre' = Snapshot
    /\ steps' = steps + 1
    /\ UNCHANGED <<today, seq, runs>>

\* date.today() moves on by a day
Tick ==
    /\ steps < MaxSteps
    /\ today < MaxToday
    /\ today' = today + 1
    /\ steps' = steps + 1
    /\ UNCHANGED <<tables, seq, pre, last, prev, open_sessions, runs>>

(***************************************************************************)
(* ensure_date_dim called by two processes at once, each in a session and  *)
(* a transaction of its own on the same store (READ COMMITTED): the read   *)
(* of the last date, the bulk INSERT and the COMMIT are separate steps.    *)
(***************************************************************************)
Procs == {1, 2}

\* a process that has not called ensure_date_dim
IdleRun ==
    [pc |-> "idle", first |-> DefaultStart, end_date |-> DefaultStart - 1,
     committed |-> FALSE, raised |-> FALSE, exit |-> "none"]

NoRuns == [p \in Procs |-> IdleRun]

\* process p enters ensure_date_dim: opens its session, computes end_date, reads
\* the last committed date and returns at once when there is nothing to add
RunBegin(p, start_date, years_ahead) ==
    /\ runs[p].pc = "idle"
    /\ LET end_date == today + DaysPerYearAhead * years_ahead
           dates    == {r.date : r \in tables["date_dim"]}
           first    == FillStart(dates, start_date)
           way      == IF dates # {} /\ first > end_date THEN "early" ELSE "end"
       IN  IF first > end_date
             THEN /\ runs' = [runs EXCEPT ![p] =
                                [pc |-> "done", first |-> first, end_date |-> end_date,
                                 committed |-> FALSE, raised |-> FALSE, exit |-> way]]
                  /\ open_sessions' = open_sessions + LeftOpen(way)
             ELSE /\ runs' = [runs EXCEPT ![p] =
                                [pc |-> "staged", first |-> first, end_date |-> end_date,
                                 committed |-> FALSE, raised |-> FALSE, exit |-> "none"]]
                  /\ open_sessions' = open_sessions + 1
    /\ UNCHANGED <<today, tables, seq, pre, last, prev, steps>>

\* the INSERT of process p waits while another transaction holds uncommitted rows
\* with the same keys
Blocked(p) ==
    \E q \in Procs \ {p} :
        /\ runs[q].pc = "inserted"
        /\ runs[q].first <= runs[p].end_date
        /\ runs[p].first <= runs[q].end_date

\* session.bulk_save_objects(rows) of process p: the rows are inserted in its open
\* transaction, or the statement raises and the session closes without a commit
RunInsert(p) ==
    /\ runs[p].pc = "staged"
    /\ ~Blocked(p)
    /\ IF BulkInsertOk(tables, "date_dim", StagedRows(runs[p].first, runs[p].end_date))
         THEN /\ runs' = [runs EXCEPT ![p].pc = "inserted"]
              /\ UNCHANGED open_sessions
         ELSE /\ runs' = [runs EXCEPT ![p].pc = "done", ![p].raised = TRUE,
                                      ![p].exit = "raise"]
              /\ open_sessions' = open_sessions - 1 + LeftOpen("raise")
    /\ UNCHANGED <<today, tables, seq, pre, last, prev, steps>>

\* session.commit() of process p, and the end of its `with` block
RunCommit(p) ==
    /\ runs[p].pc = "inserted"
    /\ tables' = [tables EXCEPT !["date_dim"] =
                     @ \cup StagedRows(runs[p].first, runs[p].end_date)]
    /\ runs' = [runs EXCEPT ![p].pc = "done", ![p].committed = TRUE,
                            ![p].exit = "end"]
    /\ open_sessions' = open_sessions - 1 + LeftOpen("end")
    /\ UNCHANGED <<today, seq, pre, last, prev, steps>>

(***************************************************************************)
(* DatabaseManager.add / update / delete                                   *)
(***************************************************************************)
\* add(obj) for an entity of table t with the given fields: one INSERT, committed
\* or, when the store rejects it, rolled back as the session closes
add(T, S, t, fields) ==
    LET row == NewRow(t, fields, IF t \in SerialTables THEN S[t] ELSE NoneInt)
    IN  IF InsertOk(T, t, row)
          THEN [tables |-> [T EXCEPT ![t] = @ \cup {row}],
                seq |-> Consumed(S, t, fields), raised |-> FALSE, ret |-> {row},
                exit |-> "return"]
          ELSE [tables |-> T, seq |-> Consumed(S, t, fields), raised |-> TRUE,
                ret |-> {}, exit |-> "raise"]

Add(t, fields) ==
    /\ steps < MaxSteps
    /\ LET res == add(tables, seq, t, fields)
       IN  /\ tables' = res.tables
           /\ seq' = res.seq
           /\ last' = [op |-> "add", model |-> t, fields |-> fields,
                       raised |-> res.raised, ret |-> res.ret, exit |-> res.exit]
           /\ open_sessions' = open_sessions + LeftOpen(res.exit)
    /\ prev' = NoCall
    /\ pre' = Snapshot
    /\ steps' = steps + 1
    /\ UNCHANGED <<today, runs>>

\* session.get(model, record_id): the rows with that primary key (none or one)
Get(T, t, key) == {r \in T[t] : r[PrimaryKey(t)] = key}

\* setattr(instance, key, value) for every item of updates
Apply(row, updates) ==
    [c \in DOMAIN row |-> IF c \in DOMAIN updates THEN updates[c] ELSE row[c]]

\* update(model, record_id, updates): ret is {} for None, else the refreshed row
update(T, t, key, updates) ==
    IF Get(T, t, key) = {}
      THEN [tables |-> T, raised |-> FALSE, found |-> FALSE, ret |-> {},
            exit |-> "early"]
    ELSE LET old  == CHOOSE r \in Get(T, t, key) : TRUE
             new  == Apply(old, updates)
             rest == [T EXCEPT ![t] = @ \ {old}]
             ok   == /\ RowOk(T, t, new)
                     /\ NoDuplicate(rest[t], t, new)
                     /\ \/ new[PrimaryKey(t)] = old[PrimaryKey(t)]
                        \/ ~Referenced(T, t, old)
         IN  IF new = old
               THEN [tables |-> T, raised |-> FALSE, found |-> TRUE, ret |-> {old},
                     exit |-> "return"]
             ELSE IF ok
               THEN [tables |-> [T EXCEPT ![t] = (@ \ {old}) \cup {new}],
                     raised |-> FALSE, found |-> TRUE, ret |-> {new},
                     exit |-> "return"]
               ELSE [tables |-> T, raised |-> TRUE, found |-> TRUE, ret |-> {},
                     exit |-> "raise"]

Update(t, key, updates) ==
    /\ steps < MaxSteps
    /\ LET res == update(tables, t, key, updates)
       IN  /\ tables' = res.tables
           /\ last' = [op |-> "update", model |-> t, key |-> key, updates |-> updates,
                       raised |-> res.raised, found |-> res.found, ret |-> res.ret,
                       exit |-> res.exit]
           /\ open_sessions' = open_sessions + LeftOpen(res.exit)
    /\ prev' = NoCall
    /\ pre' = Snapshot
    /\ steps' = steps + 1
    /\ UNCHANGED <<today, seq, runs>>

\* the rows of table u after the unit of work has detached them from parent row p
\* of table t: the relationship has no delete cascade, so the foreign key is set NULL
Orphaned(u, rows, t, p) ==
    {[c \in DOMAIN r |->
         IF \E fk \in ForeignKeys(u) : fk[1] = c /\ fk[2] = t /\ r[c] = p[fk[3]]
           THEN NullOf(c) ELSE r[c]] : r \in rows}

\* delete without the `if not instance` test
delete_blind(T, t, key) ==
    [tables |-> [T EXCEPT ![t] = @ \ Get(T, t, key)], raised |-> FALSE, ret |-> TRUE,
     exit |-> "return"]

\* delete(model, record_id)
delete(T, t, key) ==
    IF Get(T, t, key) = {}
      THEN [tables |-> T, raised |-> FALSE, ret |-> FALSE, exit |-> "early"]
    ELSE LET old == CHOOSE r \in Get(T, t, key) : TRUE
             det == [u \in TableNames |->
                        IF u = t THEN T[u] \ {old} ELSE Orphaned(u, T[u], t, old)]
         IN  IF \A u \in TableNames : \A r \in det[u] : RowOk(det, u, r)
               THEN [tables |-> det, raised |-> FALSE, ret |-> TRUE, exit |-> "return"]
               ELSE [tables |-> T, raised |-> TRUE, ret |-> FALSE, exit |-> "raise"]

Delete(t, key) ==
    /\ steps < MaxSteps
    /\ LET res == delete(tables, t, key)
       IN  /\ tables' = res.tables
           /\ last' = [op |-> "delete", model |-> t, key |-> key,
                       raised |-> res.raised, ret |-> res.ret, exit |-> res.exit]
           /\ open_sessions' = open_sessions + LeftOpen(res.exit)
    /\ prev' = NoCall
    /\ pre' = Snapshot
    /\ steps' = steps + 1
    /\ UNCHANGED <<today, seq, runs>>


(***************************************************************************)
(* DatabaseManager.ensure_region_dim                                       *)
(***************************************************************************)
\* the RegionDim(...) built from one row of countries_df
RegionFields(row) ==
    LET continent_name_raw == Strip(Str(row.Continent))
    IN  [country_code |-> Strip(Str(row.Code)),
         country_name |-> Clean(row.Name),
         native_name |-> Clean(row.Native),
         phone_code |-> Clean(row.Phone),
         continent_code |-> continent_name_to_code(continent_name_raw),
         continent_name |->
             IF continent_name_raw # <<>> THEN continent_name_raw ELSE Unknown,
         capital |-> Clean(row.Capital),
         currency |-> Clean(row.Currency),
         languages |-> CleanLanguages(row.Languages)]

US == <<"U", "S">>

ZZ == <<"Z", "Z">>

\* rows of the external feed countries.csv
RowUS ==
    [Code |-> US, Name |-> <<"U", "S", "A">>, Native |-> <<"U", "S", "A">>,
     Phone |-> <<"1">>, Continent |-> NorthAmerica, Capital |-> <<"D", "C">>,
     Currency |-> <<"U", "S", "D">>, Languages |-> <<"e", "n">>]

RowZZ ==
    [Code |-> <<" ", "Z", "Z">>, Name |-> <<"Z", "e", "d">>, Native |-> NaN,
     Phone |-> <<"9", ",", "8">>, Continent |-> <<" ">>, Capital |-> <<"N", "a", "N">>,
     Currency |-> <<>>, Languages |-> <<"a", ";", "b", ",", "c">>]

RowUS2 ==
    [Code |-> <<"U", "S", " ">>, Name |-> <<"S", "t", "a", "t", "e", "s">>,
     Native |-> <<"U", "S">>, Phone |-> NaN, Continent |-> NaN, Capital |-> NaN,
     Currency |-> <<"U", "S", "D">>, Languages |-> NaN]

FeedRows == {RowUS, RowZZ, RowUS2}

\* the entity built from each row of the feed, computed once per row
RegionEntity == [row \in FeedRows |-> RegionFields(row)]

\* session.rollback() in the except branch: the open transaction is abandoned, and
\* with it every row flushed since the session began; committed is what was stored
Rollback(committed, flushed) == committed

\* RegionStep as an upsert: a row whose code exists overwrites the stored attributes
RegionStepUpsert(T0, existing, row, acc) ==
    LET fields == RegionEntity[row]
        new    == NewRow("region_dim", fields, acc.seq["region_dim"])
        view   == [T0 EXCEPT !["region_dim"] = acc.rows]
    IN  IF fields.country_code \in existing
          THEN [acc EXCEPT !.rows =
                    {IF r.country_code = fields.country_code
                       THEN [new EXCEPT !.region_id = r.region_id] ELSE r : r \in @},
                           !.skipped = @ + 1]
        ELSE IF InsertOk(view, "region_dim", new)
          THEN [acc EXCEPT !.rows = @ \cup {new},
                           !.seq = Consumed(acc.seq, "region_dim", fields),
                           !.inserted = @ + 1]
          ELSE [acc EXCEPT !.rows = Rollback(T0["region_dim"], acc.rows),
                           !.seq = Consumed(acc.seq, "region_dim", fields),
                           !.failed = @ + 1]

\* RegionStep without the `if code in existing` test: every row is inserted
RegionStepNoSkip(T0, existing, row, acc) ==
    LET fields == RegionEntity[row]
        new    == NewRow("region_dim", fields, acc.seq["region_dim"])
        view   == [T0 EXCEPT !["region_dim"] = acc.rows]
    IN  IF InsertOk(view, "region_dim", new)
          THEN [acc EXCEPT !.rows = @ \cup {new},
                           !.seq = Consumed(acc.seq, "region_dim", fields),
                           !.inserted = @ + 1]
          ELSE [acc EXCEPT !.rows = Rollback(T0["region_dim"], acc.rows),
                           !.seq = Consumed(acc.seq, "region_dim", fields),
                           !.failed = @ + 1]

\* one iteration of `for idx, row in countries_df.iterrows()`.  acc.rows is region_dim
\* as the open transaction sees it.
RegionStep(T0, existing, row, acc) ==
    LET fields == RegionEntity[row]
        new    == NewRow("region_dim", fields, acc.seq["region_dim"])
        view   == [T0 EXCEPT !["region_dim"] = acc.rows]
    IN  IF fields.country_code \in existing
          THEN [acc EXCEPT !.skipped = @ + 1]
        ELSE IF InsertOk(view, "region_dim", new)
          THEN [acc EXCEPT !.rows = @ \cup {new},
                           !.seq = Consumed(acc.seq, "region_dim", fields),
                           !.inserted = @ + 1]
          ELSE [acc EXCEPT !.rows = Rollback(T0["region_dim"], acc.rows),
                           !.seq = Consumed(acc.seq, "region_dim", fields),
                           !.failed = @ + 1]

RECURSIVE RegionLoop(_, _, _, _, _)
RegionLoop(T0, existing, feed, i, acc) ==
    IF i > Len(feed) THEN acc
    ELSE RegionLoop(T0, existing, feed, i + 1, RegionStep(T0, existing, feed[i], acc))

\* one call of ensure_region_dim when the feed serves the rows `feed`; the final
\* session.commit() stores what the open transaction holds
ensure_region_dim(T, S, feed) ==
    LET existing == {r.country_code : r \in T["region_dim"]}
        acc == RegionLoop(T, existing, feed, 1,
                          [rows |-> T["region_dim"], seq |-> S,
                           inserted |-> 0, skipped |-> 0, failed |-> 0])
    IN  [tables |-> [T EXCEPT !["region_dim"] = acc.rows], seq |-> acc.seq,
         inserted |-> acc.inserted, skipped |-> acc.skipped, failed |-> acc.failed]

EnsureRegionDim(feed) ==
    /\ steps < MaxSteps
    /\ LET res == ensure_region_dim(tables, seq, feed)
       IN  /\ tables' = res.tables
           /\ seq' = res.seq
           /\ last' = [op |-> "ensure_region_dim", feed |-> feed,
                       inserted |-> res.inserted, skipped |-> res.skipped,
                       failed |-> res.failed, raised |-> FALSE, exit |-> "end"]
    /\ open_sessions' = open_sessions + LeftOpen("end")
    /\ prev' = last
    /\ pre' = Snapshot
    /\ steps' = steps + 1
    /\ UNCHANGED <<today, runs>>

(***************************************************************************)
(* DatabaseManager.fetch_all / fetch_by_filter / truncate_all              *)
(***************************************************************************)
\* session.query(model).all()
fetch_all(T, t) == T[t]

\* filter_by that keeps one criterion only
filter_by_one(rows, filters) ==
    IF DOMAIN filters = {} THEN rows
    ELSE LET c == CHOOSE c \in DOMAIN filters : TRUE
         IN  {r \in rows : r[c] = filters[c]}

RECURSIVE filter_by(_, _)
\* Query.filter_by(**filters): one equality criterion per keyword, each narrowing
\* the query built so far
filter_by(rows, filters) ==
    IF DOMAIN filters = {} THEN rows
    ELSE LET c == CHOOSE c \in DOMAIN filters : TRUE
         IN  filter_by({r \in rows : r[c] = filters[c]},
                       [d \in DOMAIN filters \ {c} |-> filters[d]])

\* session.query(model).filter_by(**filters).all(); a keyword that names no
\* attribute of the model raises
fetch_by_filter(T, t, filters) ==
    IF DOMAIN filters \subseteq Columns(t)
      THEN [raised |-> FALSE, ret |-> filter_by(T[t], filters), exit |-> "return"]
      ELSE [raised |-> TRUE, ret |-> {}, exit |-> "raise"]

FetchAll(t) ==
    /\ steps < MaxSteps
    /\ last' = [op |-> "fetch_all", model |-> t, raised |-> FALSE,
                ret |-> fetch_all(tables, t), exit |-> "return"]
    /\ open_sessions' = open_sessions + LeftOpen("return")
    /\ prev' = NoCall
    /\ pre' = Snapshot
    /\ steps' = steps + 1
    /\ UNCHANGED <<today, tables, seq, runs>>

FetchByFilter(t, filters) ==
    /\ steps < MaxSteps
    /\ LET res == fetch_by_filter(tables, t, filters)
       IN  /\ last' = [op |-> "fetch_by_filter", model |-> t, filters |-> filters,
                       raised |-> res.raised, ret |-> res.ret, exit |-> res.exit]
           /\ open_sessions' = open_sessions + LeftOpen(res.exit)
    /\ prev' = NoCall
    /\ pre' = Snapshot
    /\ steps' = steps + 1
    /\ UNCHANGED <<today, tables, seq, runs>>

\* the tables TRUNCATE t CASCADE empties: t and every table referencing it
Cascade(t) ==
    {t} \cup {u \in TableNames : \E fk \in ForeignKeys(u) : fk[2] = t}

\* TRUNCATE t CASCADE without RESTART IDENTITY
TruncateKeepIdentity(db, t) ==
    [tables |-> [u \in TableNames |-> IF u \in Cascade(t) THEN {} ELSE db.tables[u]],
     seq |-> db.seq]

\* TRUNCATE t RESTART IDENTITY CASCADE inside the open transaction
Truncate(db, t) ==
    [tables |-> [u \in TableNames |-> IF u \in Cascade(t) THEN {} ELSE db.tables[u]],
     seq |-> [u \in SerialTables |-> IF u \in Cascade(t) THEN 1 ELSE db.seq[u]]]

\* reversed(Base.metadata.sorted_tables)
ReversedTables == [i \in 1..Len(sorted_tables) |-> sorted_tables[Len(sorted_tables) + 1 - i]]

RECURSIVE TruncateLoop(_, _, _)
\* the statements i, i+1, .. of the loop and then session.commit(); statement
\* fail_at raises (0: none does; one past the last table: the commit does)
TruncateLoop(db, i, fail_at) ==
    IF i = fail_at THEN [db |-> db, raised |-> TRUE]
    ELSE IF i > Len(ReversedTables) THEN [db |-> db, raised |-> FALSE]
    ELSE TruncateLoop(Truncate(db, ReversedTables[i]), i + 1, fail_at)

\* SessionEnd of a session in autocommit: every statement that ran is kept
SessionEndAutocommit(before, run) == run.db

\* what the store holds when the session of truncate_all closes: the work of the
\* transaction if it reached session.commit(), the state before it otherwise
SessionEnd(before, run) == IF run.raised THEN before ELSE run.db

\* truncate_all() when statement fail_at of the loop fails
truncate_all(T, S, fail_at) ==
    LET before == [tables |-> T, seq |-> S]
        run    == TruncateLoop(before, 1, fail_at)
        after  == SessionEnd(before, run)
    IN  [tables |-> after.tables, seq |-> after.seq, raised |-> run.raised,
         exit |-> IF run.raised THEN "raise" ELSE "end"]

TruncateAll(fail_at) ==
    /\ steps < MaxSteps
    /\ LET res == truncate_all(tables, seq, fail_at)
       IN  /\ tables' = res.tables
           /\ seq' = res.seq
           /\ last' = [op |-> "truncate_all", fail_at |-> fail_at,
                       raised |-> res.raised, exit |-> res.exit]
           /\ open_sessions' = open_sessions + LeftOpen(res.exit)
    /\ prev' = NoCall
    /\ pre' = Snapshot
    /\ steps' = steps + 1
    /\ UNCHANGED <<today, runs>>


(***************************************************************************)
(* Inputs of the operations.                                               *)
(***************************************************************************)
\* a date inside every fill range, and one beyond every fill range
NearDate == 1

\* start_date is the default or a later day
StartDates == {DefaultStart, NearDate}

YearsAhead == 1..MaxYearsAhead

FarDate == MaxDate + 1

KeyDates == {NearDate, FarDate}

\* a DateDim entity as a caller builds it, with its own day name
ManualDate(d) == [DateRow(d) EXCEPT !.day_of_week_name = DayName(1)]

DDR4 == <<"D", "D", "R", "4">>

DDR5 == <<"D", "D", "R", "5">>

\* RegionDim entities given to add
RegionEntities ==
    {[country_code |-> US, country_name |-> <<"U", "S", "A">>],
     [country_code |-> ZZ, country_name |-> <<"Z", "e", "d">>]}

\* DramPrices entities given to add: prices in tenths of a dollar
DramEntities ==
    {[date |-> d, dram_type |-> p[1], price_usd |-> p[2]] :
        d \in KeyDates, p \in {<<DDR5, 35>>, <<DDR4, 21>>, <<DDR4, 35>>}}

\* the entities given to add, per table
Entities(t) ==
    CASE t = "date_dim" -> {ManualDate(d) : d \in KeyDates}
      [] t = "region_dim" -> RegionEntities
      [] t = "dram_prices" -> DramEntities
      [] t \in {"smartphone_shipments", "macro_indicators"} ->
           {[date |-> d, region_id |-> g] : d \in KeyDates, g \in {NoneInt, 1}}
      [] OTHER -> {[date |-> d] : d \in KeyDates}

\* the primary keys given to update, delete
Keys(t) ==
    IF t = "date_dim" THEN KeyDates
    ELSE IF t \in {"region_dim", "dram_prices"} THEN {1, 2} ELSE {1}

\* the field changes given to update
Updates(t) ==
    CASE t = "date_dim" -> {[week |-> 53]}
      [] t = "region_dim" -> {[country_code |-> ZZ]}
      [] t = "dram_prices" -> {[price_usd |-> 35], [date |-> FarDate]}
      [] OTHER -> {[date |-> FarDate]}

\* the keyword filters given to fetch_by_filter; <<>> is no filter at all
Filters(t) ==
    IF t = "dram_prices"
      THEN {<<>>, [dram_type |-> DDR4], [price_usd |-> 35],
            [dram_type |-> DDR4, price_usd |-> 21]}
      ELSE {<<>>, [date |-> NearDate]}

\* the statement of truncate_all that fails: 0 when none does, one past the last
\* table when session.commit() does
FailPoints == 0..(Len(sorted_tables) + 1)

\* the feeds: every sequence of at most MaxFeedLen rows
Feeds == UNION {[1..n -> FeedRows] : n \in 0..MaxFeedLen}

(***************************************************************************)
(* The store a DatabaseManager is constructed on: the schema exists, and   *)
(* holds what earlier runs of the operations left in it.                   *)
(***************************************************************************)
Db0 == [tables |-> EmptyTables, seq |-> FreshSeq]

AddTo(db, t, fields) ==
    LET res == add(db.tables, db.seq, t, fields)
    IN  [tables |-> res.tables, seq |-> res.seq]

\* one date and one region, added by hand
Db1 ==
    AddTo(AddTo(Db0, "date_dim", ManualDate(NearDate)),
          "region_dim", [country_code |-> US, country_name |-> <<"U", "S", "A">>])

\* Db1 with facts
Db2 ==
    AddTo(AddTo(AddTo(AddTo(Db1,
        "dram_prices", [date |-> NearDate, dram_type |-> DDR5, price_usd |-> 35]),
        "dram_prices", [date |-> NearDate, dram_type |-> DDR4, price_usd |-> 21]),
        "smartphone_shipments", [date |-> NearDate, region_id |-> 1]),
        "pc_shipments", [date |-> NearDate])

\* an empty store after ensure_date_dim() on day 0
Db3 ==
    [tables |-> ensure_date_dim(EmptyTables, DefaultStart, 1, 0).tables,
     seq |-> FreshSeq]

InitWith(dbs) ==
    /\ today = 0
    /\ \E db \in dbs : tables = db.tables /\ seq = db.seq
    /\ pre = [tables |-> tables, seq |-> seq]
    /\ last = NoCall
    /\ prev = NoCall
    /\ steps = 0
    /\ open_sessions = 0
    /\ runs = NoRuns

Init == InitWith({Db0, Db1, Db2})

(***************************************************************************)
(* DatabaseManager.ensure_dimensions / init_db                             *)
(***************************************************************************)
\* ensure_dimensions with its two `if` statements in the other order: the regions
\* are reconciled first
ensure_dimensions_region_first(T, S, date_dim, region_dim, now, feed) ==
    LET r  == IF region_dim
                THEN ensure_region_dim(T, S, feed)
                ELSE [tables |-> T, seq |-> S]
        d  == IF date_dim
                THEN ensure_date_dim(r.tables, DefaultStart, 1, now)
                ELSE [tables |-> r.tables, raised |-> FALSE]
    IN  [tables |-> d.tables, seq |-> r.seq, raised |-> d.raised,
         fetched |-> region_dim,
         calls |-> (IF region_dim THEN <<"ensure_region_dim">> ELSE <<>>)
                   \o (IF date_dim THEN <<"ensure_date_dim">> ELSE <<>>),
         left_open |-> (IF date_dim THEN LeftOpen(d.exit) ELSE 0)
                       + (IF region_dim THEN LeftOpen("end") ELSE 0)]

\* ensure_dimensions(date_dim, region_dim): the two reconcilers in sequence, the
\* second only if the first returned
ensure_dimensions(T, S, date_dim, region_dim, now, feed) ==
    LET d  == IF date_dim
                THEN ensure_date_dim(T, DefaultStart, 1, now)
                ELSE [tables |-> T, raised |-> FALSE]
        r  == IF region_dim /\ ~d.raised
                THEN ensure_region_dim(d.tables, S, feed)
                ELSE [tables |-> d.tables, seq |-> S]
    IN  [tables |-> r.tables, seq |-> r.seq, raised |-> d.raised,
         fetched |-> region_dim /\ ~d.raised,
         calls |-> (IF date_dim THEN <<"ensure_date_dim">> ELSE <<>>)
                   \o (IF region_dim /\ ~d.raised
                         THEN <<"ensure_region_dim">> ELSE <<>>),
         left_open |-> (IF date_dim THEN LeftOpen(d.exit) ELSE 0)
                       + (IF region_dim /\ ~d.raised THEN LeftOpen("end") ELSE 0)]

EnsureDimensions(date_dim, region_dim, feed) ==
    /\ steps < MaxSteps
    /\ \E res \in {ensure_dimensions(tables, seq, date_dim, region_dim, today, feed)} :
           /\ tables' = res.tables
           /\ seq' = res.seq
           /\ last' = [op |-> "ensure_dimensions", date_dim |-> date_dim,
                       region_dim |-> region_dim,
                       feed |-> IF res.fetched THEN feed ELSE <<>>,
                       raised |-> res.raised, fetched |-> res.fetched,
                       calls |-> res.calls]
           /\ open_sessions' = open_sessions + res.left_open
    /\ prev' = last
    /\ pre' = Snapshot
    /\ steps' = steps + 1
    /\ UNCHANGED <<today, runs>>

\* init_db that drops the tables whatever force_reset is
init_db_drop_always(T, S, force_reset, now, feed) ==
    [ensure_dimensions(Db0.tables, Db0.seq, TRUE, force_reset, now, feed)
        EXCEPT !.calls = <<"drop_all", "create_all">> \o @]

\* init_db(force_reset): drop_all and create_all leave every table empty and every
\* sequence new; create_all alone leaves existing tables as they are
init_db(T, S, force_reset, now, feed) ==
    LET db == IF force_reset THEN Db0 ELSE [tables |-> T, seq |-> S]
    IN  [ensure_dimensions(db.tables, db.seq, TRUE, force_reset, now, feed)
            EXCEPT !.calls = (IF force_reset THEN <<"drop_all">> ELSE <<>>)
                             \o <<"create_all">> \o @]

InitDb(force_reset, feed) ==
    /\ steps < MaxSteps
    /\ \E res \in {init_db(tables, seq, force_reset, today, feed)} :
           /\ tables' = res.tables
           /\ seq' = res.seq
           /\ last' = [op |-> "init_db", force_reset |-> force_reset,
                       feed |-> IF res.fetched THEN feed ELSE <<>>,
                       raised |-> res.raised, fetched |-> res.fetched,
                       calls |-> res.calls]
           /\ open_sessions' = open_sessions + res.left_open
    /\ prev' = last
    /\ pre' = Snapshot
    /\ steps' = steps + 1
    /\ UNCHANGED <<today, runs>>

(***************************************************************************)
(* Specifications.                                                         *)
(***************************************************************************)
Reconcile ==
    \/ \E s \in StartDates, y \in YearsAhead : EnsureDateDim(s, y)
    \/ \E f \in Feeds : EnsureRegionDim(f)
    \/ \E b \in BOOLEAN, f \in Feeds : InitDb(b, f)
    \/ \E d \in BOOLEAN, r \in BOOLEAN, f \in Feeds : EnsureDimensions(d, r, f)

Crud ==
    \/ \E t \in TableNames : \E e \in Entities(t) : Add(t, e)
    \/ \E t \in TableNames : \E k \in Keys(t), u \in Updates(t) : Update(t, k, u)
    \/ \E t \in TableNames : \E k \in Keys(t) : Delete(t, k)
    \/ \E t \in TableNames : FetchAll(t)
    \/ \E t \in TableNames : \E f \in Filters(t) : FetchByFilter(t, f)
    \/ \E n \in FailPoints : TruncateAll(n)

Next == Tick \/ Reconcile \/ Crud

Spec == Init /\ [][Next]_vars

\* the date dimension: reconciliation, the clock, and hand-made date rows
InitDate == InitWith({Db0, Db1, Db3})

NextDate ==
    \/ Tick
    \/ \E s \in StartDates, y \in YearsAhead : EnsureDateDim(s, y)
    \/ \E e \in Entities("date_dim") : Add("date_dim", e)
    \/ \E k \in Keys("date_dim") \cup {NearDate + 1} : Delete("date_dim", k)

SpecDate == InitDate /\ [][NextDate]_vars

\* the region dimension: reconciliation against every feed
NextRegion ==
    \/ \E f \in Feeds : EnsureRegionDim(f)
    \/ \E e \in Entities("region_dim") : Add("region_dim", e)

InitRegion == InitWith({Db0, Db1})

SpecRegion == InitRegion /\ [][NextRegion]_vars

\* the region dimension reconciled again with the feed of the call before, for
\* feeds of up to two rows more than MaxFeedLen
LongFeeds == UNION {[1..n -> FeedRows] : n \in 0..(MaxFeedLen + 2)}

EnsureRegionDimAgain ==
    /\ last.op = "ensure_region_dim"
    /\ EnsureRegionDim(last.feed)

NextRegionTwice ==
    \/ \E f \in LongFeeds : last.op # "ensure_region_dim" /\ EnsureRegionDim(f)
    \/ EnsureRegionDimAgain
    \/ \E e \in Entities("region_dim") : Add("region_dim", e)

SpecRegionTwice == InitRegion /\ [][NextRegionTwice]_vars

\* the generic persistence operations
NextCrud == Crud

SpecCrud == Init /\ [][NextCrud]_vars

\* every operation that opens a session, on the dimensions and one fact table
SessionTables == {"date_dim", "region_dim", "dram_prices"}

\* the feeds of at most one row
ShortFeeds == {f \in Feeds : Len(f) <= 1}

NextSession ==
    \/ EnsureDateDim(DefaultStart, 1)
    \/ \E f \in ShortFeeds : EnsureRegionDim(f)
    \/ \E t \in SessionTables : \E e \in Entities(t) : Add(t, e)
    \/ \E t \in SessionTables : \E k \in Keys(t), u \in Updates(t) : Update(t, k, u)
    \/ \E t \in SessionTables : \E k \in Keys(t) : Delete(t, k)
    \/ \E t \in SessionTables : FetchAll(t)
    \/ \E t \in SessionTables : \E f \in Filters(t) : FetchByFilter(t, f)
    \/ \E n \in {0, 1} : TruncateAll(n)

SpecSession == InitWith({Db0, Db2}) /\ [][NextSession]_vars

\* start-up and the orchestration of the reconcilers
NextInit ==
    \/ Tick
    \/ \E b \in BOOLEAN, f \in ShortFeeds : InitDb(b, f)
    \/ \E d \in BOOLEAN, r \in BOOLEAN, f \in ShortFeeds : EnsureDimensions(d, r, f)

SpecInit == Init /\ [][NextInit]_vars

\* every operation that writes, on the dimensions and two fact tables
StoreTables == {"date_dim", "region_dim", "dram_prices", "smartphone_shipments"}

NextStore ==
    \/ EnsureDateDim(DefaultStart, 1)
    \/ \E f \in ShortFeeds : EnsureRegionDim(f)
    \/ \E b \in BOOLEAN, f \in ShortFeeds : InitDb(b, f)
    \/ \E t \in StoreTables : \E e \in Entities(t) : Add(t, e)
    \/ \E t \in StoreTables : \E k \in Keys(t), u \in Updates(t) : Update(t, k, u)
    \/ \E k \in Keys("date_dim") : Update("date_dim", k, [date |-> FarDate])
    \/ \E t \in StoreTables : \E k \in Keys(t) : Delete(t, k)
    \/ \E n \in {0, 1} : TruncateAll(n)

SpecStore == InitWith({Db0, Db2}) /\ [][NextStore]_vars

\* two processes reconciling the date dimension at once, while the clock runs
NextConcurrent ==
    \/ Tick
    \/ \E p \in Procs : \E s \in StartDates, y \in YearsAhead : RunBegin(p, s, y)
    \/ \E p \in Procs : RunInsert(p)
    \/ \E p \in Procs : RunCommit(p)

SpecConcurrent == InitDate /\ [][NextConcurrent]_vars


(***************************************************************************)
(* Region reconciliation: claims C1 and C4.                                *)
(***************************************************************************)
\* the country codes of a set of RegionDim rows
Codes(rows) == {r.country_code : r \in rows}

\* the code of row i of a feed, as the reconciler reads it
FeedCode(feed, i) == RegionEntity[feed[i]].country_code

FeedCodes(feed) == {FeedCode(feed, i) : i \in 1..Len(feed)}

\* row i of the feed is not skipped: its code is not among the codes E
Candidate(feed, E, i) == FeedCode(feed, i) \notin E

\* row i can be stored on its own: the built entity meets the column constraints
Storable(feed, i) ==
    RowOk(EmptyTables, "region_dim", NewRow("region_dim", RegionEntity[feed[i]], 1))

\* row i is a valid row of the feed: storable, and no earlier storable row of the
\* feed has its code
ValidRow(feed, E, i) ==
    /\ Candidate(feed, E, i)
    /\ Storable(feed, i)
    /\ \A j \in 1..(i - 1) : ~(Storable(feed, j) /\ FeedCode(feed, j) = FeedCode(feed, i))

\* the rows of the feed that fail to insert
FailingRows(feed, E) ==
    {i \in 1..Len(feed) : Candidate(feed, E, i) /\ ~ValidRow(feed, E, i)}

\* C1: when exactly one row of the feed fails to insert, after ensure_region_dim
\* RegionDim has a row for every other valid feed row whose code was not already
\* present, rows before the failing one included, and the failed count is 1.
C1_PerRowIsolation ==
    (/\ last.op = "ensure_region_dim"
     /\ Cardinality(FailingRows(last.feed, Codes(pre.tables["region_dim"]))) = 1)
    => /\ last.failed = 1
       /\ \A i \in 1..Len(last.feed) :
             ValidRow(last.feed, Codes(pre.tables["region_dim"]), i)
             => FeedCode(last.feed, i) \in Codes(tables["region_dim"])

\* every row of the feed that is not skipped is valid, and no code occurs twice
AllInsertable(feed, E) ==
    /\ Cardinality(FeedCodes(feed)) = Len(feed)
    /\ \A i \in 1..Len(feed) : Candidate(feed, E, i) => Storable(feed, i)

\* C4: for existing codes E and a feed F of distinct codes whose rows all insert,
\* after ensure_region_dim the codes of RegionDim are E union F, |F \ E| rows were
\* added, inserted = |F \ E|, skipped = |F intersect E| and failed = 0.
C4_InsertOrSkip ==
    LET E == Codes(pre.tables["region_dim"])
        F == FeedCodes(last.feed)
    IN  (last.op = "ensure_region_dim" /\ AllInsertable(last.feed, E))
        => /\ Codes(tables["region_dim"]) = E \cup F
           /\ Cardinality(tables["region_dim"])
                = Cardinality(pre.tables["region_dim"]) + Cardinality(F \ E)
           /\ last.inserted = Cardinality(F \ E)
           /\ last.skipped = Cardinality(F \cap E)
           /\ last.failed = 0

\* a run that skipped one existing code and inserted one new code
C4_Witness ==
    /\ last.op = "ensure_region_dim"
    /\ AllInsertable(last.feed, Codes(pre.tables["region_dim"]))
    /\ last.inserted = 1
    /\ last.skipped = 1
    /\ Cardinality(tables["region_dim"]) = 2


(***************************************************************************)
(* Date reconciliation: claims C2, C3 and C5.                              *)
(***************************************************************************)
Dates(rows) == {r.date : r \in rows}

\* the DateDim rows of the days a .. b
DateRange(a, b) == {Calendar[d] : d \in a..b}

\* the last date of a date table, or the day before day 0 when it is empty
LastDate(rows) == IF rows = {} THEN DefaultStart - 1 ELSE SetMax(Dates(rows))

\* the table is empty or holds what ensure_date_dim with the default start wrote:
\* the staged rows of day 0 up to some day
OnlyReconciled(rows) ==
    /\ LastDate(rows) <= MaxDate
    /\ rows = DateRange(DefaultStart, LastDate(rows))

\* a call of ensure_date_dim with the default start that returned, on a table that
\* only ensure_date_dim had written
C2_Case ==
    /\ last.op = "ensure_date_dim"
    /\ ~last.raised
    /\ last.start_date = DefaultStart
    /\ OnlyReconciled(pre.tables["date_dim"])

\* C2 as claimed: after such a call DateDim holds exactly one row for every date
\* from 2020-01-01 to end = today + years_ahead, and no row outside that range.
C2_GaplessToEnd ==
    C2_Case => tables["date_dim"] = DateRange(DefaultStart, last.end_date)

\* C2 as amended: after such a call DateDim holds exactly one row for every date
\* from 2020-01-01 to the later of end and the last date present before the call,
\* and no row for any other date.
C2_GaplessToLast ==
    C2_Case =>
        LET top == IF LastDate(pre.tables["date_dim"]) > last.end_date
                     THEN LastDate(pre.tables["date_dim"]) ELSE last.end_date
        IN  /\ tables["date_dim"] = DateRange(DefaultStart, top)
            /\ Cardinality(Dates(tables["date_dim"])) = Cardinality(tables["date_dim"])

\* a call that extended a non-empty reconciled table
C2_Witness ==
    /\ C2_Case
    /\ pre.tables["date_dim"] # {}
    /\ last.committed
    /\ last.staged > 0

\* the call before last was the same call of ensure_date_dim on the same day
SameDateCall ==
    /\ last.op = "ensure_date_dim"
    /\ prev.op = "ensure_date_dim"
    /\ prev.start_date = last.start_date
    /\ prev.years_ahead = last.years_ahead
    /\ prev.today = last.today
    /\ ~prev.raised

\* C3: a second ensure_date_dim with the same today and parameters leaves DateDim
\* as the first left it, stages no row, inserts nothing and does not commit.
C3_Idempotent ==
    SameDateCall
    => /\ tables = pre.tables
       /\ last.staged = 0
       /\ ~last.committed
       /\ ~last.raised

\* the second of two equal calls, the first of which inserted rows
C3_Witness == SameDateCall /\ prev.committed /\ prev.staged > 0

Truncated == last.op = "truncate_all" /\ ~last.raised

\* C6: after a successful truncate_all every managed table is empty, and the next
\* row added to a table with an auto-assigned key receives the key 1.
C6_TruncateAndReset ==
    /\ [](Truncated => /\ \A t \in TableNames : tables[t] = {}
                       /\ \A t \in SerialTables : seq[t] = 1)
    /\ [][(/\ Truncated
           /\ last'.op = "add"
           /\ last'.model \in SerialTables
           /\ PrimaryKey(last'.model) \notin DOMAIN last'.fields
           /\ ~last'.raised)
          => \A r \in last'.ret : r[PrimaryKey(last'.model)] = 1]_vars

\* a truncate_all that emptied tables whose sequences had advanced
C6_Witness ==
    /\ Truncated
    /\ \E t \in SerialTables : pre.tables[t] # {} /\ pre.seq[t] > 1
    /\ pre.tables["date_dim"] # {}

\* C7: a truncate_all that fails after truncating some tables leaves every table
\* and every identity counter as before the call; after any truncate_all the store
\* is either wholly as before or wholly empty.
C7_AllOrNothing ==
    last.op = "truncate_all"
    => /\ last.raised => (tables = pre.tables /\ seq = pre.seq)
       /\ \/ tables = pre.tables /\ seq = pre.seq
          \/ \A t \in TableNames : tables[t] = {}

\* a truncate_all that failed after the statement for a non-empty table had run
C7_Witness ==
    /\ last.op = "truncate_all"
    /\ last.raised
    /\ last.fail_at <= Len(ReversedTables)
    /\ \E i \in 1..(last.fail_at - 1) : pre.tables[ReversedTables[i]] # {}
    /\ pre.tables[ReversedTables[last.fail_at]] # {}

\* the entity repeats a DateDim date or a RegionDim code of the store T, or is a
\* fact whose date is no DateDim date of T
ViolatesConstraint(T, t, fields) ==
    \/ t = "date_dim" /\ fields.date \in Dates(T["date_dim"])
    \/ t = "region_dim" /\ fields.country_code \in Codes(T["region_dim"])
    \/ t \in FactTables /\ fields.date \notin Dates(T["date_dim"])

\* C8: an add that violates a uniqueness or a foreign-key constraint fails with an
\* error, and every table is as before the call.
C8_AddAtomic ==
    (last.op = "add" /\ ViolatesConstraint(pre.tables, last.model, last.fields))
    => /\ last.raised
       /\ tables = pre.tables

\* a rejected add of a fact whose date is missing, into a table that has rows
C8_Witness ==
    /\ last.op = "add"
    /\ last.model \in FactTables
    /\ last.fields.date \notin Dates(pre.tables["date_dim"])
    /\ pre.tables[last.model] # {}

\* C9: fetch_by_filter returns exactly the rows equal to the given value on every
\* given field, and with no field given the rows fetch_all returns.
C9_FilterSemantics ==
    (last.op = "fetch_by_filter" /\ ~last.raised)
    => /\ last.ret = {r \in tables[last.model] :
                         \A c \in DOMAIN last.filters : r[c] = last.filters[c]}
       /\ DOMAIN last.filters = {} => last.ret = fetch_all(tables, last.model)

\* a fetch on two fields from a table with a row matching both, a row matching
\* exactly one, and a row matching none
C9_Witness ==
    /\ last.op = "fetch_by_filter"
    /\ Cardinality(DOMAIN last.filters) = 2
    /\ last.ret # {}
    /\ \E r \in tables[last.model] :
          Cardinality({c \in DOMAIN last.filters : r[c] = last.filters[c]}) = 1
    /\ \E r \in tables[last.model] : \A c \in DOMAIN last.filters : r[c] # last.filters[c]

\* C10: update of a missing key returns None and delete of a missing key returns
\* False, without raising and without changing any table; delete returns True only
\* when a row with the key existed and is gone.
C10_NotFound ==
    /\ (last.op = "update" /\ Get(pre.tables, last.model, last.key) = {})
       => /\ ~last.found /\ last.ret = {} /\ ~last.raised
          /\ tables = pre.tables /\ seq = pre.seq
    /\ (last.op = "delete" /\ Get(pre.tables, last.model, last.key) = {})
       => /\ last.ret = FALSE /\ ~last.raised
          /\ tables = pre.tables /\ seq = pre.seq
    /\ (last.op = "delete" /\ last.ret = TRUE)
       => /\ Get(pre.tables, last.model, last.key) # {}
          /\ Get(tables, last.model, last.key) = {}

\* a delete of a key that no row of a non-empty table has
C10_Witness ==
    /\ last.op = "delete"
    /\ Get(pre.tables, last.model, last.key) = {}
    /\ pre.tables[last.model] # {}
    /\ last.ret = FALSE


(***************************************************************************)
(* Sessions: claim C11.                                                    *)
(***************************************************************************)
\* the operations that open a session
SessionOps ==
    {"add", "update", "delete", "fetch_all", "fetch_by_filter", "truncate_all",
     "ensure_date_dim", "ensure_region_dim"}

\* C11: whichever way an operation leaves its session block (end, return, early
\* return, raised error), the session it opened is closed when it returns: between
\* operations no session is open.
C11_NoOpenSession ==
    /\ open_sessions = 0
    /\ last.op \in SessionOps => last.exit \in ExitWays

\* an operation has just left its block by a raised error, following another call
C11_Witness ==
    /\ last.op \in SessionOps
    /\ last.exit = "raise"
    /\ steps > 1
    /\ open_sessions = 0


(***************************************************************************)
(* Start-up: claims C12 and C14.                                           *)
(***************************************************************************)
\* the reconcilers among the calls a start-up made, in the order they started
Reconcilers(calls) ==
    SelectSeq(calls, LAMBDA c : c \in {"ensure_date_dim", "ensure_region_dim"})

\* C12: init_db(force_reset) always runs the date reconciliation, runs the region
\* reconciliation (and fetches the feed) exactly when force_reset is true, and then
\* only after the date reconciliation has returned without an error; and
\* ensure_dimensions with region_dim false neither fetches the feed nor writes
\* RegionDim.
C12_OrchestrationOrder ==
    /\ last.op = "init_db"
       => /\ Reconcilers(last.calls)
               = <<"ensure_date_dim">>
                 \o (IF last.force_reset THEN <<"ensure_region_dim">> ELSE <<>>)
          /\ last.fetched <=> last.force_reset
          /\ last.fetched => ~last.raised
    /\ last.op = "ensure_dimensions"
       => /\ ~last.region_dim
             => /\ ~last.fetched
                /\ \A i \in 1..Len(last.calls) : last.calls[i] # "ensure_region_dim"
                /\ tables["region_dim"] = pre.tables["region_dim"]
                /\ seq = pre.seq
          /\ (last.date_dim /\ last.fetched)
             => last.calls = <<"ensure_date_dim", "ensure_region_dim">>

\* a forced start-up on a store with rows, whose feed gave RegionDim a row
C12_Witness ==
    /\ last.op = "init_db"
    /\ last.force_reset
    /\ pre.tables["region_dim"] # {}
    /\ tables["region_dim"] # {}
    /\ tables["date_dim"] # {}

\* C14: init_db with force_reset false leaves every fact table and RegionDim as
\* they were and keeps every DateDim row that was there (it may add date rows);
\* the tables are dropped only by an init_db whose force_reset is true.
C14_NonForcedKeeps ==
    last.op = "init_db"
    => /\ ~last.force_reset
          => /\ \A t \in FactTables \cup {"region_dim"} : tables[t] = pre.tables[t]
             /\ pre.tables["date_dim"] \subseteq tables["date_dim"]
       /\ (\E i \in 1..Len(last.calls) : last.calls[i] = "drop_all")
          => last.force_reset

\* a start-up without force_reset on a store with facts, which added date rows
C14_Witness ==
    /\ last.op = "init_db"
    /\ ~last.force_reset
    /\ pre.tables["dram_prices"] # {}
    /\ pre.tables["region_dim"] # {}
    /\ tables["date_dim"] # pre.tables["date_dim"]


(***************************************************************************)
(* Referential integrity: claim C13.                                       *)
(***************************************************************************)
\* the keys of the RegionDim rows
RegionIds(rows) == {r.region_id : r \in rows}

\* C13: in every state reachable by add, update, delete, truncate_all, init_db and
\* the reconcilers, every fact row's date is the key of a DateDim row and every
\* region_id of a fact row that is not null is the key of a RegionDim row.
C13_Referential ==
    \A t \in FactTables : \A r \in tables[t] :
        /\ r.date \in Dates(tables["date_dim"])
        /\ "region_id" \in DOMAIN r
           => r.region_id = NoneInt \/ r.region_id \in RegionIds(tables["region_dim"])

\* the store rejected the removal or re-keying of a date that facts refer to, and
\* the facts are still there
C13_Witness ==
    /\ last.op \in {"delete", "update"}
    /\ last.model = "date_dim"
    /\ last.raised
    /\ \E t \in FactTables : \E r \in tables[t] : r.date = last.key


(***************************************************************************)
(* Date reconciliation of an incomplete range: claim C15.                  *)
(***************************************************************************)
\* the dates of a .. b that have no row
MissingDates(rows, a, b) == {d \in a..b : d \notin Dates(rows)}

\* C15: when DateDim has rows but lacks a date of 2020-01-01 .. today + years_ahead
\* (before its first row, between rows, or after its last row), after
\* ensure_date_dim every date of that range has a row.
C15_SelfHealing ==
    (/\ last.op = "ensure_date_dim"
     /\ ~last.raised
     /\ pre.tables["date_dim"] # {}
     /\ MissingDates(pre.tables["date_dim"], DefaultStart, last.end_date) # {})
    => MissingDates(tables["date_dim"], DefaultStart, last.end_date) = {}


(***************************************************************************)
(* Region reconciliation: claims C16, C17, C19 and C20.                    *)
(***************************************************************************)
\* C16: the counts ensure_region_dim reports add up to the number of feed rows, and
\* the inserted count is the number of rows RegionDim gained by the call.
C16_CountsMatch ==
    last.op = "ensure_region_dim"
    => /\ last.inserted + last.skipped + last.failed = Len(last.feed)
       /\ last.inserted = Cardinality(tables["region_dim"])
                            - Cardinality(pre.tables["region_dim"])

\* C17: every RegionDim row present before ensure_region_dim is present after it
\* with the same region_id and the same values, whatever the feed holds for its
\* code; and no two RegionDim rows ever share a country code.
C17_NeverUpsert ==
    /\ last.op = "ensure_region_dim"
       => pre.tables["region_dim"] \subseteq tables["region_dim"]
    /\ Cardinality(Codes(tables["region_dim"])) = Cardinality(tables["region_dim"])

\* a run that skipped a feed row whose data differ from the stored row of its code
C17_Witness ==
    /\ last.op = "ensure_region_dim"
    /\ last.skipped > 0
    /\ \E i \in 1..Len(last.feed) : \E r \in pre.tables["region_dim"] :
          /\ FeedCode(last.feed, i) = r.country_code
          /\ RegionEntity[last.feed[i]].country_name # r.country_name
          /\ r \in tables["region_dim"]

\* the continent cell names one of the seven continents of the fixed table
NamedContinent(cell) ==
    cell # NaN /\ \E kv \in continent_map : kv[2] = Strip(cell)

\* C19: every row ensure_region_dim inserted has a continent code exactly when the
\* feed's continent name is one of the seven names (and then that name's code), has
\* a continent name, and has the name "Unknown" and no code when the feed's
\* continent is blank, missing or not one of the seven.
C19_ContinentDefault ==
    last.op = "ensure_region_dim"
    => \A r \in tables["region_dim"] \ pre.tables["region_dim"] :
          \A i \in 1..Len(last.feed) :
             r = NewRow("region_dim", RegionEntity[last.feed[i]], r.region_id)
             => LET cell == last.feed[i].Continent
                IN  /\ r.continent_code # None <=> NamedContinent(cell)
                    /\ NamedContinent(cell)
                       => <<r.continent_code, Strip(cell)>> \in continent_map
                    /\ r.continent_name # None
                    /\ ~NamedContinent(cell)
                       => r.continent_name = Unknown /\ r.continent_code = None

\* the call before last was ensure_region_dim with the same feed
SameFeedCall ==
    /\ last.op = "ensure_region_dim"
    /\ prev.op = "ensure_region_dim"
    /\ prev.feed = last.feed

\* C20: a second ensure_region_dim with the same feed leaves RegionDim as the first
\* left it; and when the first reported no failure, the second reports inserted = 0
\* and skipped = the number of feed rows.
C20_Idempotent ==
    SameFeedCall
    => /\ tables["region_dim"] = pre.tables["region_dim"]
       /\ prev.failed = 0
          => last.inserted = 0 /\ last.skipped = Len(last.feed)


(***************************************************************************)
(* Concurrent date reconciliation: claim C18.                              *)
(***************************************************************************)
\* both processes have called ensure_date_dim and are back
AllDone == \A p \in Procs : runs[p].pc = "done"

\* the rows of the fill range of process p
RunRange(p) == DateRange(runs[p].first, runs[p].end_date)

\* C18: when two ensure_date_dim runs interleave in any way, the final table holds
\* exactly one row per date: the rows that were there and the fill range of every
\* run that committed, which is the whole fill range when both runs have the same
\* one; a run whose rows collide with rows the other run committed raises, commits
\* nothing, and leaves no row of its own in the table.
C18_ConcurrentRuns ==
    AllDone
    => /\ Cardinality(Dates(tables["date_dim"])) = Cardinality(tables["date_dim"])
       /\ tables["date_dim"]
            = pre.tables["date_dim"]
              \cup UNION {RunRange(p) : p \in {q \in Procs : runs[q].committed}}
       /\ (\A p \in Procs : runs[p].first = runs[1].first
                             /\ runs[p].end_date = runs[1].end_date)
          => RunRange(1) \subseteq tables["date_dim"]
       /\ \A p \in Procs : \A q \in Procs \ {p} :
             /\ (runs[q].committed /\ RunRange(p) \cap RunRange(q) # {})
                => runs[p].raised /\ ~runs[p].committed
             /\ runs[p].raised
                => /\ ~runs[p].committed
                   /\ runs[q].committed
                   /\ (RunRange(p) \ RunRange(q)) \cap tables["date_dim"] = {}

\* both runs read the same last date, one committed and the other, which staged
\* more dates, raised
C18_Witness ==
    /\ AllDone
    /\ \E p \in Procs : \E q \in Procs \ {p} :
          /\ runs[p].raised
          /\ runs[q].committed
          /\ runs[p].first = runs[q].first
          /\ runs[p].end_date > runs[q].end_date

====
